---------------------------- MODULE Spec2Model ----------------------------
(***************************************************************************)
(* Client-side synchronization core of the trading dashboard               *)
(* (src/unnamed/part_000): the polling Sync Loop (fetchSystemData), the    *)
(* Snapshot Store and P&L Time-Series Buffer held in the global `state`    *)
(* object, and the execution-mode switch (confirmModeSwitch).              *)
(*                                                                         *)
(* Every `await` of an async function is a point where other handlers may  *)
(* run, so one action models the code that runs from one resumption to the *)
(* next await (or to the end of the function).                             *)
(***************************************************************************)
EXTENDS Integers, Sequences, FiniteSets, TLC

\* ------------------------------------------------------------------ bounds
\* fetchSystemData invocations that may be started between two page loads
MaxTicks == 2
\* initDashboard runs (logins) between two page loads
MaxLogins == 2
\* failed fetches, undecodable bodies and rendering exceptions of the polls
\* between two page loads
MaxFaults == 1

\* ------------------------------------------------------- program constants
MAX_HISTORY == 900
\* compact axis labels are HH:MM:SS, so they wrap after one day of seconds
SecondsPerDay == 86400
\* setInterval(fetchSystemData, 2000): seconds between two timer firings
PollSeconds == 2

Modes == {"MOCK", "SIMULATION", "PAPER", "REAL"}
\* absent / undefined / null / not yet rendered
None == "none"
\* data_status values the backend reports for its market feed
DataStatuses == {"CONNECTED", "DISCONNECTED"}

\* The six polled endpoints in the order fetchSystemData requests them:
\* metrics, trades, logs, account balance, agent status, agent audit trail.
EpM == 1
EpT == 2
EpL == 3
EpA == 4
EpS == 5
EpD == 6
Endpoints == {EpM, EpT, EpL, EpA, EpS, EpD}

TickSlots == 1..MaxTicks

VARIABLES
    state,            \* the global `state` object (Snapshot Store + buffer)
    dom,              \* what the mode widgets of the page show
    ticks,            \* the fetchSystemData invocations (their closures)
    nextId,           \* fetchSystemData invocations started since page load
    timers,           \* setInterval(fetchSystemData) timers registered
    listeners,        \* ACCOUNT_UPDATE listeners registered
    clock,            \* the time, in seconds since the page was loaded
    isSwitchingMode,  \* the in-flight flag of confirmModeSwitch
    sw,               \* the closure of the accepted confirmModeSwitch call
    posts,            \* mode-change POSTs issued and not yet settled
    lastDialog,       \* what the latest confirmModeSwitch call has shown
    srv,              \* the backend: its execution mode and feed status
    faults,           \* poll failures since page load (bounded by MaxFaults)
    reloading,        \* window.location.reload() was called, page not yet gone
    chart,            \* pnlChart: the series the performance chart displays
    boxes,            \* the price boxes of #dynamic-price-container, in order
    health,           \* the system-health notice is shown for a missing feed
    mreqs             \* markets whose /market/data request is pending

vars == <<state, dom, ticks, nextId, timers, listeners, clock,
          isSwitchingMode, sw, posts, lastDialog, srv, faults, reloading,
          chart, boxes, health, mreqs>>

tickVars == <<ticks, nextId>>
switchVars == <<isSwitchingMode, sw, posts, lastDialog>>
\* The views that are drawn on request. The Sync Loop and the mode switch are
\* modelled with the performance tab hidden, where they do not redraw them.
viewVars == <<chart, boxes, health, mreqs>>
marketVars == <<boxes, health, mreqs>>


\* ------------------------------------------------------------ response data
\* The backend's answer to the request of fetchSystemData invocation k is
\* identified by k: its metrics carry daily_pnl = k, its balance is k, and the
\* body of every other endpoint is the version k of that collection.
MetricsBody(k, mode) ==
    [daily_pnl |-> k, total_capital |-> k, execution_mode |-> mode]

AccountBody(k) == [balance |-> k]

\* now.toLocaleTimeString(...): time of day only
CompactTime(t) == t % SecondsPerDay

\* now.toLocaleString(... year, month, day, hour, minute, second)
FullTime(t) == t

\* -------------------------------------------------------------- idle values
IdleTick == [pc |-> "idle", id |-> 0, ep |-> 0,
             ok |-> [e \in Endpoints |-> FALSE],
             mode |-> None, data |-> None]

\* state.metrics === null, state.account_update === null (no poll id is 0)
NoMetrics == [daily_pnl |-> 0, total_capital |-> 0, execution_mode |-> None]
NoAccount == [balance |-> 0]

\* A text is the sequence of its words; the empty string is the empty sequence
NoText == <<>>

NoReply == [status |-> None, mode |-> None, data_status |-> None,
            detail |-> NoText]

NoDialog == [kind |-> None, text |-> NoText]

FreshDom == [headerMode |-> None, headerData |-> None, selected |-> None]

\* No confirmModeSwitch call is suspended. `before` is what the mode widgets
\* showed when the call was made (kept for stating properties; the code keeps
\* no such copy).
IdleSwitch == [pc |-> "idle", mode |-> None, timer |-> FALSE,
               reply |-> NoReply, before |-> FreshDom]

\* let pnlChart = null, and the chart as initAnalytics creates it: no points
NoChart == [labels |-> <<>>, data |-> <<>>, fullTimestamps |-> <<>>,
            synthetic |-> FALSE]

\* const state = { ... } and the page as served
FreshState ==
    [isAuth |-> FALSE, metrics |-> NoMetrics, trades |-> 0, logs |-> 0,
     account_update |-> NoAccount, agentV2Status |-> 0, auditTrail |-> 0,
     pnlHistory |-> <<>>, pnlTimestamps |-> <<>>, pnlFullTimestamps |-> <<>>,
     executionMode |-> None, dataEngineStatus |-> None,
     chartTimeRange |-> "1D", selectedMarket |-> "NIFTY",
     selectedCommodity |-> "GOLD"]

\* The session after login and n polls that all succeeded, none overlapping,
\* with the backend in MOCK mode throughout: poll k ran at second
\* PollSeconds * (k - 1) and left one buffer point.
PolledState(n) ==
    [isAuth |-> TRUE, metrics |-> MetricsBody(n, "MOCK"), trades |-> n,
     logs |-> n, account_update |-> AccountBody(n), agentV2Status |-> n,
     auditTrail |-> n,
     pnlHistory |-> [i \in 1..n |-> i],
     pnlTimestamps |-> [i \in 1..n |-> CompactTime(PollSeconds * (i - 1))],
     pnlFullTimestamps |-> [i \in 1..n |-> FullTime(PollSeconds * (i - 1))],
     executionMode |-> "MOCK", dataEngineStatus |-> None,
     chartTimeRange |-> "1D", selectedMarket |-> "NIFTY",
     selectedCommodity |-> "GOLD"]

PolledDom ==
    [headerMode |-> "MOCK", headerData |-> "INTERNAL FEED", selected |-> "MOCK"]

InitFresh ==
    /\ state = FreshState
    /\ dom = FreshDom
    /\ ticks = [i \in TickSlots |-> IdleTick]
    /\ nextId = 0
    /\ timers = 0
    /\ listeners = 0
    /\ clock = 0
    /\ isSwitchingMode = FALSE
    /\ sw = IdleSwitch
    /\ posts = 0
    /\ lastDialog = NoDialog
    /\ srv = [mode |-> "MOCK", data |-> None]
    /\ faults = 0
    /\ reloading = FALSE
    /\ chart = NoChart
    /\ boxes = <<>>
    /\ health = FALSE
    /\ mreqs = {}

\* A session that has been polling long enough for the buffer to be one point
\* short of MAX_HISTORY.
InitPolled ==
    /\ state = PolledState(MAX_HISTORY - 1)
    /\ dom = PolledDom
    /\ ticks = [i \in TickSlots |-> IdleTick]
    /\ nextId = MAX_HISTORY - 1
    /\ timers = 1
    /\ listeners = 1
    /\ clock = PollSeconds * (MAX_HISTORY - 2)
    /\ isSwitchingMode = FALSE
    /\ sw = IdleSwitch
    /\ posts = 0
    /\ lastDialog = NoDialog
    /\ srv = [mode |-> "MOCK", data |-> None]
    /\ faults = 0
    /\ reloading = FALSE
    /\ chart = NoChart
    /\ boxes = <<>>
    /\ health = FALSE
    /\ mreqs = {}

Init == InitFresh \/ InitPolled


\* ---------------------------------------------------------------- rendering
\* A "world" w = [state, dom] is what the synchronous rendering code reads and
\* writes; each operator returns the world after the function has run.

\* headerData.textContent as updateExecutionModeUI leaves it
FeedLabel(mode, dataStatus, old) ==
    CASE mode = "MOCK" -> "INTERNAL FEED"
      [] mode = "SIMULATION" -> "HISTORICAL REPLAY"
      [] mode \in {"PAPER", "REAL"} ->
            IF dataStatus # None THEN dataStatus ELSE "LIVE DATA"
      [] OTHER -> old

updateExecutionModeUI(w, mode, dataStatus) ==
    [state |-> [w.state EXCEPT !.metrics =
                    IF @ = NoMetrics THEN @
                    ELSE [@ EXCEPT !.execution_mode = mode]],
     dom |-> [headerMode |-> mode,
              headerData |-> FeedLabel(mode, dataStatus, w.dom.headerData),
              selected |-> IF mode \in Modes THEN mode ELSE None]]

updateDashboardUI(w) ==
    IF w.state.metrics = NoMetrics THEN w
    ELSE IF w.state.executionMode # None
         THEN updateExecutionModeUI(w, w.state.executionMode,
                                    w.state.dataEngineStatus)
         ELSE w

\* One ACCOUNT_UPDATE listener registered by initDashboard
AccountListener(w, data) ==
    IF data # NoAccount
    THEN updateDashboardUI(
            [w EXCEPT !.state.metrics =
                IF @ = NoMetrics THEN @
                ELSE [@ EXCEPT !.total_capital = data.balance]])
    ELSE w

\* window.dispatchEvent(new CustomEvent('ACCOUNT_UPDATE', ...)): every
\* registered listener runs, synchronously, in registration order
RECURSIVE DispatchAccountUpdate(_, _, _)
DispatchAccountUpdate(w, data, n) ==
    IF n = 0 THEN w
    ELSE DispatchAccountUpdate(AccountListener(w, data), data, n - 1)


\* ------------------------------------------------------------- the Sync Loop
\* if (xRes.ok) ... = await xRes.json(): the applied body of endpoint e
ApplyBody(w, t, n) ==
    CASE t.ep = EpM ->
            [w EXCEPT !.state.metrics = MetricsBody(t.id, t.mode),
                      !.state.dataEngineStatus =
                            IF t.data # None THEN t.data ELSE @,
                      !.state.executionMode = t.mode]
      [] t.ep = EpT -> [w EXCEPT !.state.trades = t.id]
      [] t.ep = EpL -> [w EXCEPT !.state.logs = t.id]
      [] t.ep = EpA ->
            DispatchAccountUpdate(
                [w EXCEPT !.state.account_update = AccountBody(t.id)],
                AccountBody(t.id), n)
      [] t.ep = EpS -> [w EXCEPT !.state.agentV2Status = t.id]
      [] t.ep = EpD -> [w EXCEPT !.state.auditTrail = t.id]

\* push onto the three arrays, then shift all three when pnlHistory is too long
PushPoint(st, now) ==
    LET h == Append(st.pnlHistory, st.metrics.daily_pnl)
        c == Append(st.pnlTimestamps, CompactTime(now))
        f == Append(st.pnlFullTimestamps, FullTime(now))
    IN  IF Len(h) > MAX_HISTORY
        THEN [st EXCEPT !.pnlHistory = Tail(h), !.pnlTimestamps = Tail(c),
                        !.pnlFullTimestamps = Tail(f)]
        ELSE [st EXCEPT !.pnlHistory = h, !.pnlTimestamps = c,
                        !.pnlFullTimestamps = f]

\* The tail of fetchSystemData, from `if (state.metrics)` to the end of the
\* try block: it runs in the same turn as the last resumption.
TrackAndRender(w, now) ==
    IF w.state.metrics = NoMetrics THEN w
    ELSE updateDashboardUI([w EXCEPT !.state = PushPoint(w.state, now)])

\* The smallest endpoint of the set whose response was ok (0: none)
FirstOk(ok, among) ==
    IF \E e \in among : ok[e]
    THEN CHOOSE e \in among : ok[e] /\ \A x \in among : ok[x] => e <= x
    ELSE 0

\* Where fetchSystemData suspends next, after the response of endpoint e
\* (body = FALSE) or after the body of endpoint e (body = TRUE) has arrived.
NextAwait(ok, e, body) ==
    LET b == IF body
             THEN IF e < EpA THEN FirstOk(ok, (e + 1)..EpA)
                  ELSE IF e = EpS THEN FirstOk(ok, {EpD})
                  ELSE 0
             ELSE IF e = EpA THEN FirstOk(ok, EpM..EpA)
                  ELSE IF e = EpD THEN FirstOk(ok, {EpS, EpD})
                  ELSE 0
    IN  IF b # 0 THEN [pc |-> "body", ep |-> b]
        ELSE IF ~body /\ e \notin {EpA, EpD} THEN [pc |-> "req", ep |-> e + 1]
        ELSE IF (body /\ e <= EpA) \/ (~body /\ e = EpA)
             THEN [pc |-> "req", ep |-> EpS]
        ELSE [pc |-> "end", ep |-> 0]

HasSlot == \E i \in TickSlots : ticks[i].pc = "idle"

FreeSlot == CHOOSE i \in TickSlots :
                ticks[i].pc = "idle" /\ \A j \in 1..(i - 1) : ticks[j].pc # "idle"

\* A switch in flight will call fetchSystemData when it succeeds: a slot is
\* kept for it.
SlotFor(other) ==
    Cardinality({i \in TickSlots : ticks[i].pc = "idle"})
        > (IF other /\ isSwitchingMode THEN 1 ELSE 0)

\* fetchSystemData(), up to its first await: the metrics request is issued
fetchSystemData(auth) ==
    IF auth
    THEN /\ ticks' = [ticks EXCEPT ![FreeSlot] =
                        [IdleTick EXCEPT !.pc = "req", !.id = nextId + 1,
                                         !.ep = EpM]]
         /\ nextId' = nextId + 1
    ELSE UNCHANGED tickVars

\* The terminal closure of an invocation
Ended(t, how) == [IdleTick EXCEPT !.pc = how, !.id = t.id]

\* The continuation of invocation i moves to `nxt`; when that is the end of
\* the awaits, the tail runs now, and `throws` says whether rendering threw
\* (caught by the catch of fetchSystemData). `failed` is 1 when the step
\* itself brought a failed response.
Resume(i, t, w, nxt, failed, throws) ==
    IF nxt.pc # "end"
    THEN /\ ticks' = [ticks EXCEPT ![i] = [t EXCEPT !.pc = nxt.pc, !.ep = nxt.ep]]
         /\ state' = w.state
         /\ dom' = w.dom
         /\ faults' = faults + failed
         /\ faults' <= MaxFaults
    ELSE LET w2 == TrackAndRender(w, clock)
             thrown == throws /\ w.state.metrics # NoMetrics
         IN  /\ state' = w2.state
             /\ dom' = w2.dom
             /\ ticks' = [ticks EXCEPT ![i] =
                    IF thrown THEN Ended(t, "failed")
                    ELSE Ended(t, "done")]
             /\ faults' = faults + failed + (IF thrown THEN 1 ELSE 0)
             /\ faults' <= MaxFaults

\* await fetch(...) resolves with a response whose ok flag is isOk
TickResponse(i, isOk, throws) ==
    /\ ticks[i].pc = "req"
    /\ LET t0 == ticks[i]
           t == [t0 EXCEPT !.ok[t0.ep] = isOk,
                    !.mode = IF t0.ep = EpM /\ isOk THEN srv.mode ELSE @,
                    !.data = IF t0.ep = EpM /\ isOk THEN srv.data ELSE @]
       IN  Resume(i, t, [state |-> state, dom |-> dom],
                  NextAwait(t.ok, t.ep, FALSE), IF isOk THEN 0 ELSE 1, throws)
    /\ UNCHANGED <<nextId, timers, listeners, clock, switchVars, srv, reloading>>
    /\ UNCHANGED viewVars

\* A faulty variant: the catch of fetchSystemData stops the polling timers
TickNetworkErrorStopsTimer(i) ==
    /\ ticks[i].pc = "req"
    /\ ticks' = [ticks EXCEPT ![i] = Ended(@, "failed")]
    /\ faults < MaxFaults
    /\ faults' = faults + 1
    /\ timers' = 0
    /\ UNCHANGED <<state, dom, nextId, listeners, clock, switchVars, srv,
                   reloading>>
    /\ UNCHANGED viewVars

\* await fetch(...) rejects (network error): control goes to the catch
TickNetworkError(i) ==
    /\ ticks[i].pc = "req"
    /\ ticks' = [ticks EXCEPT ![i] = Ended(@, "failed")]
    /\ faults < MaxFaults
    /\ faults' = faults + 1
    /\ UNCHANGED <<state, dom, nextId, timers, listeners, clock, switchVars,
                   srv, reloading>>
    /\ UNCHANGED viewVars

\* await xRes.json() resolves: the body is stored
TickBody(i, throws) ==
    /\ ticks[i].pc = "body"
    /\ LET t == ticks[i]
       IN  Resume(i, t, ApplyBody([state |-> state, dom |-> dom], t, listeners),
                  NextAwait(t.ok, t.ep, TRUE), 0, throws)
    /\ UNCHANGED <<nextId, timers, listeners, clock, switchVars, srv, reloading>>
    /\ UNCHANGED viewVars

\* await xRes.json() rejects (undecodable body): control goes to the catch
TickBadJson(i) ==
    /\ ticks[i].pc = "body"
    /\ ticks' = [ticks EXCEPT ![i] = Ended(@, "failed")]
    /\ faults < MaxFaults
    /\ faults' = faults + 1
    /\ UNCHANGED <<state, dom, nextId, timers, listeners, clock, switchVars,
                   srv, reloading>>
    /\ UNCHANGED viewVars

\* ------------------------------------------------- session and user actions
\* handleLogin, from the successful login response on: isAuth, the mode label
\* when the response names a mode, then initDashboard (first fetchSystemData,
\* the 2 s timer, the ACCOUNT_UPDATE listener).
handleLogin(mode) ==
    /\ ~state.isAuth
    /\ ~reloading
    /\ timers < MaxLogins
    /\ SlotFor(TRUE)
    /\ LET w0 == [state |-> [state EXCEPT !.isAuth = TRUE], dom |-> dom]
           w == IF mode # None THEN updateExecutionModeUI(w0, mode, None)
                ELSE w0
       IN  /\ state' = w.state
           /\ dom' = w.dom
    /\ fetchSystemData(TRUE)
    /\ timers' = timers + 1
    /\ listeners' = listeners + 1
    /\ UNCHANGED <<clock, switchVars, srv, faults, reloading>>
    /\ UNCHANGED viewVars

logout ==
    /\ state.isAuth
    /\ ~reloading
    /\ state' = [state EXCEPT !.isAuth = FALSE]
    /\ UNCHANGED <<dom, tickVars, timers, listeners, clock, switchVars, srv,
                   faults, reloading>>
    /\ UNCHANGED viewVars

\* One firing of a setInterval(fetchSystemData, 2000) timer
TimerFire ==
    /\ timers > 0
    /\ state.isAuth => SlotFor(TRUE)
    /\ fetchSystemData(state.isAuth)
    /\ clock' = IF state.isAuth THEN clock + PollSeconds ELSE clock
    /\ UNCHANGED <<state, dom, timers, listeners, switchVars, srv, faults, reloading>>
    /\ UNCHANGED viewVars

\* controlSystem('start' | 'pause' | 'square_off_all'), from the moment its
\* POST resolves: fetchSystemData()
controlSystem ==
    /\ state.isAuth
    /\ ~reloading
    /\ SlotFor(TRUE)
    /\ fetchSystemData(TRUE)
    /\ UNCHANGED <<state, dom, timers, listeners, clock, switchVars, srv,
                   faults, reloading>>
    /\ UNCHANGED viewVars

\* applyCapitalPreset, from the moment its POST resolves ok: fetchSystemData()
applyCapitalPreset ==
    /\ state.isAuth
    /\ ~reloading
    /\ SlotFor(TRUE)
    /\ fetchSystemData(TRUE)
    /\ UNCHANGED <<state, dom, timers, listeners, clock, switchVars, srv,
                   faults, reloading>>
    /\ UNCHANGED viewVars

\* A market tab click: tab.onclick ends in updateDashboardUI()
MarketTabClick ==
    /\ state.isAuth
    /\ ~reloading
    /\ LET w == updateDashboardUI([state |-> state, dom |-> dom])
       IN  /\ state' = w.state
           /\ dom' = w.dom
    /\ UNCHANGED <<tickVars, timers, listeners, clock, switchVars, srv,
                   faults, reloading>>
    /\ UNCHANGED viewVars

\* controlSystem('reset') with the confirm() accepted: the logs and the value
\* array are replaced by [], then window.location.reload() is called
controlSystemReset ==
    /\ state.isAuth
    /\ ~reloading
    /\ state' = [state EXCEPT !.logs = 0, !.pnlHistory = <<>>]
    /\ reloading' = TRUE
    /\ UNCHANGED <<dom, tickVars, timers, listeners, clock, switchVars, srv,
                   faults>>
    /\ UNCHANGED viewVars

\* The reloaded document replaces the page: every script variable, timer,
\* listener and pending continuation of the old page is gone. The backend is
\* not part of the page.
PageReload ==
    /\ reloading
    /\ state' = FreshState
    /\ dom' = FreshDom
    /\ ticks' = [i \in TickSlots |-> IdleTick]
    /\ nextId' = 0
    /\ timers' = 0
    /\ listeners' = 0
    /\ clock' = 0
    /\ isSwitchingMode' = FALSE
    /\ sw' = IdleSwitch
    /\ posts' = 0
    /\ lastDialog' = NoDialog
    /\ faults' = 0
    /\ reloading' = FALSE
    /\ chart' = NoChart
    /\ boxes' = <<>>
    /\ health' = FALSE
    /\ mreqs' = {}
    /\ UNCHANGED srv


\* ------------------------------------------------------- the mode switch
\* Reasons the backend gives when it refuses a mode change
Reasons ==
    {<<"Broker", "credentials", "missing">>,
     <<"Invalid", "JSON", "payload">>,
     <<"Failed", "to", "fetch", "broker", "session">>}

\* message.includes(keyword): the words of keyword occur, in a row, in message
Includes(message, keyword) ==
    \E i \in 1..(Len(message) - Len(keyword) + 1) :
        SubSeq(message, i, i + Len(keyword) - 1) = keyword

\* The catch block of confirmModeSwitch: the alert chosen for error e
ErrorDialog(e) ==
    IF e.name = "AbortError" THEN [kind |-> "timeout", text |-> NoText]
    ELSE IF Includes(e.message, <<"Failed", "to", "fetch">>)
            \/ Includes(e.message, <<"NetworkError">>)
         THEN [kind |-> "connection", text |-> NoText]
    ELSE IF Includes(e.message, <<"JSON">>)
         THEN [kind |-> "format", text |-> NoText]
    ELSE IF e.message # NoText THEN [kind |-> "error", text |-> e.message]
    ELSE [kind |-> "generic", text |-> NoText]

\* data.detail || data.message || "Unknown error"
BlockReason(reply) ==
    IF reply.detail # NoText THEN reply.detail ELSE <<"Unknown", "error">>

\* The replies of POST /api/v1/system/mode with a 2xx status
OkReplies ==
    {[status |-> "success", mode |-> m, data_status |-> d, detail |-> NoText] :
        m \in Modes, d \in DataStatuses \cup {None}}
    \cup {[status |-> "error", mode |-> None, data_status |-> None,
           detail |-> r] : r \in Reasons \cup {NoText}}

\* The bodies of a non-2xx reply: a detail, or nothing usable
ErrorReplies ==
    {[status |-> None, mode |-> None, data_status |-> None, detail |-> r] :
        r \in Reasons \cup {NoText}}

\* finally { isSwitchingMode = false }, the request being settled
SwitchSettled(dialog) ==
    /\ isSwitchingMode' = FALSE
    /\ sw' = IdleSwitch
    /\ posts' = posts - 1
    /\ lastDialog' = dialog

\* confirmModeSwitch(mode) while a switch is in flight
SwitchBusy(mode) ==
    /\ state.isAuth
    /\ ~reloading
    /\ isSwitchingMode
    /\ lastDialog' = [kind |-> "busy", text |-> NoText]
    /\ UNCHANGED <<state, dom, tickVars, timers, listeners, clock,
                   isSwitchingMode, sw, posts, srv, faults, reloading>>
    /\ UNCHANGED viewVars

\* A faulty variant: the in-flight flag is raised before the confirm() and
\* stays raised
SwitchDeclinedLocks ==
    /\ state.isAuth
    /\ ~reloading
    /\ ~isSwitchingMode
    /\ isSwitchingMode' = TRUE
    /\ lastDialog' = [kind |-> "declined", text |-> NoText]
    /\ UNCHANGED <<state, dom, tickVars, timers, listeners, clock, sw, posts,
                   srv, faults, reloading>>
    /\ UNCHANGED viewVars

\* confirmModeSwitch('REAL') with the confirm() declined
SwitchDeclined ==
    /\ state.isAuth
    /\ ~reloading
    /\ ~isSwitchingMode
    /\ lastDialog' = [kind |-> "declined", text |-> NoText]
    /\ UNCHANGED <<state, dom, tickVars, timers, listeners, clock,
                   isSwitchingMode, sw, posts, srv, faults, reloading>>
    /\ UNCHANGED viewVars

\* A faulty variant: the call does not look at the in-flight flag
SwitchAcceptUnguarded(mode) ==
    /\ state.isAuth
    /\ ~reloading
    /\ SlotFor(FALSE)
    /\ isSwitchingMode' = TRUE
    /\ dom' = [dom EXCEPT !.selected = mode]
    /\ sw' = [pc |-> "fetch", mode |-> mode, timer |-> TRUE, reply |-> NoReply,
              before |-> dom]
    /\ posts' = posts + 1
    /\ lastDialog' = NoDialog
    /\ UNCHANGED <<state, tickVars, timers, listeners, clock, srv, faults,
                   reloading>>
    /\ UNCHANGED viewVars

\* confirmModeSwitch(mode) accepted (REAL: confirm() accepted), up to the
\* await of the POST
SwitchAccept(mode) ==
    /\ state.isAuth
    /\ ~reloading
    /\ ~isSwitchingMode
    /\ SlotFor(FALSE)
    /\ isSwitchingMode' = TRUE
    /\ dom' = [dom EXCEPT !.selected = mode]
    /\ sw' = [pc |-> "fetch", mode |-> mode, timer |-> TRUE, reply |-> NoReply,
              before |-> dom]
    /\ posts' = posts + 1
    /\ lastDialog' = NoDialog
    /\ UNCHANGED <<state, tickVars, timers, listeners, clock, srv, faults,
                   reloading>>
    /\ UNCHANGED viewVars

\* The 10 s timer fires: controller.abort(), the pending fetch (or the
\* pending res.json() of its response) rejects with an AbortError. The backend
\* may or may not have carried out the request.
SwitchTimeout(applied) ==
    /\ sw.pc \in {"fetch", "body"}
    /\ sw.timer
    /\ SwitchSettled(ErrorDialog(
            [name |-> "AbortError",
             message |-> <<"The", "user", "aborted", "a", "request.">>]))
    /\ srv' = IF applied THEN [mode |-> sw.mode, data |-> None] ELSE srv
    /\ UNCHANGED <<state, dom, tickVars, timers, listeners, clock, faults, reloading>>
    /\ UNCHANGED viewVars

\* The fetch rejects: the server cannot be reached
SwitchNetworkError ==
    /\ sw.pc = "fetch"
    /\ SwitchSettled(ErrorDialog([name |-> "TypeError",
                                  message |-> <<"Failed", "to", "fetch">>]))
    /\ UNCHANGED <<state, dom, tickVars, timers, listeners, clock, srv,
                   faults, reloading>>
    /\ UNCHANGED viewVars

\* A faulty variant: the 10 s timer is left armed when the headers arrive
SwitchResponseKeepsTimer(isOk, reply) ==
    /\ sw.pc = "fetch"
    /\ reply \in (IF isOk THEN OkReplies ELSE ErrorReplies)
    /\ sw' = [sw EXCEPT !.pc = IF isOk THEN "body" ELSE "errbody",
                        !.reply = reply]
    /\ srv' = IF reply.status = "success"
              THEN [mode |-> reply.mode, data |-> reply.data_status]
              ELSE srv
    /\ UNCHANGED <<state, dom, tickVars, timers, listeners, clock,
                   isSwitchingMode, posts, lastDialog, faults, reloading>>
    /\ UNCHANGED viewVars

\* The response headers arrive: clearTimeout, then the body is awaited
\* (res.json() directly for a 2xx, res.json().catch(...) otherwise). A success
\* reply means the backend now runs in the mode it names.
SwitchResponse(isOk, reply) ==
    /\ sw.pc = "fetch"
    /\ reply \in (IF isOk THEN OkReplies ELSE ErrorReplies)
    /\ sw' = [sw EXCEPT !.pc = IF isOk THEN "body" ELSE "errbody",
                        !.timer = FALSE, !.reply = reply]
    /\ srv' = IF reply.status = "success"
              THEN [mode |-> reply.mode, data |-> reply.data_status]
              ELSE srv
    /\ UNCHANGED <<state, dom, tickVars, timers, listeners, clock,
                   isSwitchingMode, posts, lastDialog, faults, reloading>>
    /\ UNCHANGED viewVars

\* The body of a non-2xx reply settles: the detail is `HTTP <status>` when the
\* body cannot be decoded; throw new Error(detail || `Server error: <status>`)
SwitchErrorBody(decoded) ==
    /\ sw.pc = "errbody"
    /\ LET detail == IF ~decoded THEN <<"HTTP", "500">>
                     ELSE IF sw.reply.detail # NoText THEN sw.reply.detail
                     ELSE <<"Server", "error:", "500">>
       IN  SwitchSettled(ErrorDialog([name |-> "Error", message |-> detail]))
    /\ UNCHANGED <<state, dom, tickVars, timers, listeners, clock, srv,
                   faults, reloading>>
    /\ UNCHANGED viewVars

\* A faulty variant: the widgets are updated with the requested mode
SwitchBodyRequestedMode ==
    /\ sw.pc = "body"
    /\ IF sw.reply.status = "success"
       THEN /\ LET w == updateExecutionModeUI([state |-> state, dom |-> dom],
                                              sw.mode, sw.reply.data_status)
               IN  /\ state' = w.state
                   /\ dom' = w.dom
            /\ fetchSystemData(state.isAuth)
            /\ SwitchSettled(lastDialog)
       ELSE /\ SwitchSettled([kind |-> "blocked", text |-> BlockReason(sw.reply)])
            /\ UNCHANGED <<state, dom, tickVars>>
    /\ UNCHANGED <<timers, listeners, clock, srv, faults, reloading>>
    /\ UNCHANGED viewVars

\* The body of a 2xx reply is decoded: on 'success' the mode widgets are
\* updated from the reply and fetchSystemData() is called; otherwise the
\* reason is shown
SwitchBody ==
    /\ sw.pc = "body"
    /\ IF sw.reply.status = "success"
       THEN /\ LET w == updateExecutionModeUI([state |-> state, dom |-> dom],
                                              sw.reply.mode,
                                              sw.reply.data_status)
               IN  /\ state' = w.state
                   /\ dom' = w.dom
            /\ fetchSystemData(state.isAuth)
            /\ SwitchSettled(lastDialog)
       ELSE /\ SwitchSettled([kind |-> "blocked", text |-> BlockReason(sw.reply)])
            /\ UNCHANGED <<state, dom, tickVars>>
    /\ UNCHANGED <<timers, listeners, clock, srv, faults, reloading>>
    /\ UNCHANGED viewVars

\* The body of a 2xx reply cannot be decoded: res.json() rejects
SwitchBadJson ==
    /\ sw.pc = "body"
    /\ SwitchSettled(ErrorDialog(
            [name |-> "SyntaxError",
             message |-> <<"Unexpected", "token", "<", "in", "JSON", "at",
                          "position", "0">>]))
    /\ UNCHANGED <<state, dom, tickVars, timers, listeners, clock, srv,
                   faults, reloading>>
    /\ UNCHANGED viewVars

\* ---------------------------------------------------------- specifications
\* The Sync Loop: the session, the polls and everything that starts a poll,
\* re-renders or resets.
Next ==
    \/ \E m \in {srv.mode, None} : handleLogin(m)
    \/ logout
    \/ TimerFire
    \/ controlSystem
    \/ applyCapitalPreset
    \/ MarketTabClick
    \/ controlSystemReset
    \/ PageReload
    \/ \E i \in TickSlots, isOk \in BOOLEAN, throws \in BOOLEAN :
            TickResponse(i, isOk, throws)
    \/ \E i \in TickSlots : TickNetworkError(i)
    \/ \E i \in TickSlots, throws \in BOOLEAN : TickBody(i, throws)
    \/ \E i \in TickSlots : TickBadJson(i)

Spec == Init /\ [][Next]_vars

\* The mode switch: the session and the confirmModeSwitch calls. The polls it
\* starts stay pending.
SwitchNext ==
    \/ \E m \in {srv.mode, None} : handleLogin(m)
    \/ logout
    \/ MarketTabClick
    \/ \E m \in Modes : SwitchBusy(m)
    \/ SwitchDeclined
    \/ \E m \in Modes : SwitchAccept(m)
    \/ \E applied \in BOOLEAN : SwitchTimeout(applied)
    \/ SwitchNetworkError
    \/ \E isOk \in BOOLEAN, reply \in OkReplies \cup ErrorReplies :
            SwitchResponse(isOk, reply)
    \/ \E decoded \in BOOLEAN : SwitchErrorBody(decoded)
    \/ SwitchBody
    \/ SwitchBadJson

SwitchSpec == Init /\ [][SwitchNext]_vars

\* What the runtime guarantees of a pending switch: an armed 10 s timer fires.
\* Nothing obliges the server to send headers or to finish a body.
FairSwitchSpec ==
    SwitchSpec /\ WF_vars(\E applied \in BOOLEAN : SwitchTimeout(applied))

\* ------------------------------------------------------------------ claims
\* C1: at most one mode-change POST is outstanding in every reachable state,
\* and a confirmModeSwitch call made while a switch is in flight issues no
\* request, queues nothing and leaves the flag and the pending request alone.
C1_SingleFlight ==
    /\ [](posts <= 1)
    /\ [][(lastDialog'.kind = "busy" /\ lastDialog.kind # "busy")
            => /\ isSwitchingMode
               /\ UNCHANGED <<posts, isSwitchingMode, sw, state, dom, ticks,
                              nextId, srv>>]_vars

C1_Witness ==
    lastDialog.kind = "busy" /\ isSwitchingMode /\ posts = 1 /\ sw.pc = "fetch"

\* C2: a declined confirmModeSwitch('REAL') issues no request and changes
\* nothing (flag, mode, data status, selected option), and while it is the
\* latest call the machine is idle, so that a switch request is accepted.
C2_DeclinedNoEffect ==
    /\ [][(lastDialog'.kind = "declined" /\ lastDialog.kind # "declined")
            => /\ ~isSwitchingMode
               /\ UNCHANGED <<state, dom, ticks, nextId, timers, listeners,
                              clock, isSwitchingMode, sw, posts, srv>>]_vars
    /\ [](lastDialog.kind = "declined"
            => /\ ~isSwitchingMode /\ posts = 0 /\ sw = IdleSwitch
               /\ (state.isAuth /\ SlotFor(FALSE))
                    => ENABLED SwitchAccept("REAL"))

C2_Witness ==
    /\ lastDialog.kind = "declined"
    /\ state.isAuth
    /\ dom.headerMode \in Modes
    /\ dom.selected # "REAL"

\* C3: every accepted switch attempt eventually clears the in-flight flag,
\* also when the headers arrive and the body never finishes.
C3_FlagEventuallyCleared == isSwitchingMode ~> ~isSwitchingMode

\* The step in which the decoded body of a 2xx reply says 'success'
SwitchSucceeds ==
    /\ sw.pc = "body"
    /\ sw.reply.status = "success"
    /\ sw'.pc = "idle"
    /\ lastDialog'.kind # "format"

Running(t) == t.pc \in {"req", "body"}

\* The invocation has received the response of endpoint e
Answered(t, e) ==
    CASE t.pc = "req" -> e < t.ep
      [] t.pc = "body" -> IF t.ep <= EpA THEN e <= EpA ELSE TRUE
      [] OTHER -> FALSE

\* The invocation has stored the body of endpoint e
Applied(t, e) ==
    /\ Answered(t, e)
    /\ t.ok[e]
    /\ CASE t.pc = "req" -> t.ep >= EpS /\ e <= EpA
         [] t.pc = "body" -> e < t.ep
         [] OTHER -> FALSE

\* The ok responses the invocation holds and has neither stored nor begun
\* to decode
Unapplied(t) ==
    {e \in Endpoints : /\ Answered(t, e)
                       /\ t.ok[e]
                       /\ ~Applied(t, e)
                       /\ ~(t.pc = "body" /\ t.ep = e)}

\* The Snapshot Store field of an endpoint
Field(st, e) ==
    CASE e = EpM -> st.metrics
      [] e = EpT -> <<st.trades>>
      [] e = EpL -> <<st.logs>>
      [] e = EpA -> st.account_update
      [] e = EpS -> <<st.agentV2Status>>
      [] e = EpD -> <<st.auditTrail>>

\* One of the buffer's sequences after one point was added to it
Pushed(old, new) ==
    /\ Len(new) > 0
    /\ new = Append(IF Len(old) >= MAX_HISTORY THEN Tail(old) ELSE old,
                    new[Len(new)])

Buffer(st) == <<st.pnlHistory, st.pnlTimestamps, st.pnlFullTimestamps>>

\* C4: none of the buffer's sequences is ever longer than MAX_HISTORY, and a
\* sequence that is full and changes (other than by being emptied) loses
\* exactly its oldest point and gains one at the end.
C4_BufferBounded ==
    /\ [](\A k \in 1..3 : Len(Buffer(state)[k]) <= MAX_HISTORY)
    /\ [][\A k \in 1..3 :
            (/\ Len(Buffer(state)[k]) = MAX_HISTORY
             /\ Buffer(state')[k] # Buffer(state)[k]
             /\ Buffer(state')[k] # <<>>)
                => /\ Len(Buffer(state')[k]) = MAX_HISTORY
                   /\ Pushed(Buffer(state)[k], Buffer(state')[k])]_vars

\* C5: a step of an invocation that has received a failed response of an
\* endpoint leaves that endpoint's store field as it was.
C5_FailedFetchKeepsField ==
    [][\A i \in TickSlots : \A e \in Endpoints :
        (/\ Running(ticks[i])
         /\ ticks'[i] # ticks[i]
         /\ ticks'[i].pc # "idle"
         /\ Answered(ticks[i], e)
         /\ ~ticks[i].ok[e])
            => Field(state', e) = Field(state, e)]_vars

\* C6: when an invocation ends in a failure of one endpoint, every ok
\* response it holds of the other endpoints has been stored.
C6_EndpointsIsolated ==
    [][\A i \in TickSlots :
        (Running(ticks[i]) /\ ticks'[i].pc = "failed")
            => Unapplied(ticks[i]) = {}]_vars

C8_OnePointPerMetricsTick ==
    [][\A i \in TickSlots :
        (Running(ticks[i]) /\ ticks'[i] # ticks[i] /\ ticks'[i].pc # "idle")
            => IF ticks'[i].pc \in {"done", "failed"}
                  /\ ticks[i].ep > EpM /\ ticks[i].ok[EpM]
               THEN /\ \A k \in 1..3 :
                        Pushed(Buffer(state)[k], Buffer(state')[k])
                    /\ state'.pnlHistory[Len(state'.pnlHistory)] = ticks[i].id
               ELSE Buffer(state') = Buffer(state)]_vars

\* C9: the three sequences of the buffer have the same length
C9_EqualLengths ==
    /\ Len(state.pnlHistory) = Len(state.pnlTimestamps)
    /\ Len(state.pnlTimestamps) = Len(state.pnlFullTimestamps)

\* ------------------------------------------- claims on the switch outcomes
\* The alerts of a switch attempt that did not succeed
FailureKinds ==
    {"blocked", "timeout", "connection", "format", "error", "generic"}

\* The alerts of the three transport failures
TransportKinds == {"timeout", "connection", "format"}

\* The step that settles a 2xx reply whose decoded body refuses with a reason
RefusedInBody ==
    /\ sw.pc = "body"
    /\ sw.reply.status = "error"
    /\ sw.reply.detail # NoText
    /\ sw'.pc = "idle"
    /\ lastDialog'.kind # "format"

\* The step that settles a non-2xx reply whose body carries a detail
RefusedByStatus ==
    /\ sw.pc = "errbody"
    /\ sw.reply.detail # NoText
    /\ sw'.pc = "idle"

\* C11: when the backend refuses a switch with a reason, in a 2xx body or in
\* the detail of a non-2xx reply (whose body, when it cannot be decoded, is
\* replaced by the HTTP status), the alert carries that reason, and the mode
\* and data status shown and the store are as before.
C11_ReasonShown ==
    /\ [][RefusedInBody
            => /\ lastDialog' = [kind |-> "blocked", text |-> sw.reply.detail]
               /\ dom'.headerMode = dom.headerMode
               /\ dom'.headerData = dom.headerData
               /\ state' = state]_vars
    /\ [][RefusedByStatus
            => /\ lastDialog'.text \in {sw.reply.detail, <<"HTTP", "500">>}
               /\ dom'.headerMode = dom.headerMode
               /\ dom'.headerData = dom.headerData
               /\ state' = state]_vars

\* C12: a request that fails before any reply is reported as a timeout or as
\* a connection error, a backend rejection (a non-2xx reply, or a 2xx body that
\* refuses) is never reported with one of the three transport messages, and
\* only a rejection decoded from a 2xx body gets the `blocked` message.
C12_FailureClassified ==
    /\ [][(sw.pc = "fetch" /\ sw'.pc = "idle")
            => lastDialog'.kind \in {"timeout", "connection"}]_vars
    /\ [][(sw.pc = "errbody" /\ sw'.pc = "idle")
            => lastDialog'.kind \notin TransportKinds]_vars
    /\ [][(sw.pc = "body" /\ sw'.pc = "idle" /\ sw.reply.status = "error")
            => lastDialog'.kind \in {"blocked", "format"}]_vars
    /\ [][(lastDialog'.kind = "blocked" /\ lastDialog' # lastDialog)
            => sw.pc = "body" /\ sw.reply.status = "error"]_vars

\* C13: when an attempt ends in a rejection or a transport failure, the mode,
\* the data status and the selected option shown are those shown when the
\* attempt was made.
C13_RolledBack ==
    [][(sw.pc # "idle" /\ sw'.pc = "idle" /\ lastDialog'.kind \in FailureKinds)
        => dom' = sw.before]_vars

\* ----------------------------------------------- claims on the store
\* The six Snapshot Store fields
Store(st) ==
    <<st.metrics, st.trades, st.logs, st.account_update, st.agentV2Status,
      st.auditTrail>>

\* C14: a step taken while the session is not authenticated (before and
\* after it) issues no polling request and writes neither a store field nor
\* the buffer.
C14_IdleWhenLoggedOut ==
    [][(~state.isAuth /\ ~state'.isAuth)
        => /\ Store(state') = Store(state)
           /\ Buffer(state') = Buffer(state)
           /\ \A i \in TickSlots :
                ticks'[i].pc = "req" => ticks'[i] = ticks[i]]_vars

\* C15: state.metrics only changes by becoming the body of the ok metrics
\* response that an invocation is decoding (or by the page going away).
C15_MetricsReplacedWholesale ==
    [][state'.metrics # state.metrics
        => \/ \E i \in TickSlots :
                /\ ticks[i].pc = "body"
                /\ ticks[i].ep = EpM
                /\ state'.metrics = MetricsBody(ticks[i].id, ticks[i].mode)
           \/ reloading /\ ~reloading' /\ state'.metrics = NoMetrics]_vars

\* ---------------------------------------------------- the performance chart
\* Hours that may pass while the chart is looked at
MaxHours == 2
\* The sequences of numbers that Math.random() may return during one call
MaxStreams == 2

SecondsPerHour == 3600
\* const pointsCount = 100 of mockHistoricalData, and its starting base
MockPoints == 100
MockBase == 500
\* history.length < 50: below this the longer ranges show placeholder data
MinRealPoints == 50

Ranges == {"1D", "5D", "1M", "3M", "6M", "1Y"}

\* A faulty variant: the 5D window is 600 points
rangeConfigFiveDayWindow(range) ==
    CASE range = "1D" -> [points |-> 500, step |-> 1]
      [] range = "5D" -> [points |-> 600, step |-> 2]
      [] range = "1M" -> [points |-> 3000, step |-> 5]
      [] range = "3M" -> [points |-> 5000, step |-> 10]
      [] range = "6M" -> [points |-> 8000, step |-> 20]
      [] range = "1Y" -> [points |-> 12000, step |-> 50]
      [] OTHER -> [points |-> 500, step |-> 1]

\* A faulty variant: the 1D window is 300 points
rangeConfigShort(range) ==
    CASE range = "1D" -> [points |-> 300, step |-> 1]
      [] range = "5D" -> [points |-> 1500, step |-> 2]
      [] range = "1M" -> [points |-> 3000, step |-> 5]
      [] range = "3M" -> [points |-> 5000, step |-> 10]
      [] range = "6M" -> [points |-> 8000, step |-> 20]
      [] range = "1Y" -> [points |-> 12000, step |-> 50]
      [] OTHER -> [points |-> 300, step |-> 1]

\* rangeConfig[state.chartTimeRange] || rangeConfig['1D']
rangeConfig(range) ==
    CASE range = "1D" -> [points |-> 500, step |-> 1]
      [] range = "5D" -> [points |-> 1500, step |-> 2]
      [] range = "1M" -> [points |-> 3000, step |-> 5]
      [] range = "3M" -> [points |-> 5000, step |-> 10]
      [] range = "6M" -> [points |-> 8000, step |-> 20]
      [] range = "1Y" -> [points |-> 12000, step |-> 50]
      [] OTHER -> [points |-> 500, step |-> 1]

\* array.slice(startIdx)
Slice(seq, startIdx) == SubSeq(seq, startIdx + 1, Len(seq))

\* A faulty variant: the filter keeps the elements with i % step = 1
RECURSIVE FilterStepShifted(_, _, _, _)
FilterStepShifted(seq, step, lo, hi) ==
    IF lo > hi THEN <<>>
    ELSE IF lo = hi
         THEN IF (lo - 1) % step = 1 THEN <<seq[lo]>> ELSE <<>>
    ELSE LET mid == (lo + hi) \div 2
         IN  FilterStepShifted(seq, step, lo, mid)
                \o FilterStepShifted(seq, step, mid + 1, hi)

\* array.filter((_, i) => i % step === 0) restricted to the elements lo..hi
\* (1-based places; i is the 0-based index of the element)
RECURSIVE FilterStep(_, _, _, _)
FilterStep(seq, step, lo, hi) ==
    IF lo > hi THEN <<>>
    ELSE IF lo = hi
         THEN IF (lo - 1) % step = 0 THEN <<seq[lo]>> ELSE <<>>
    ELSE LET mid == (lo + hi) \div 2
         IN  FilterStep(seq, step, lo, mid) \o FilterStep(seq, step, mid + 1, hi)

\* if (step > 1) sliced = sliced.filter(...)
Downsample(seq, step) ==
    IF step > 1 THEN FilterStep(seq, step, 1, Len(seq)) ELSE seq

\* (Math.random() - 0.45) * 50 for the k-th draw of stream s, in whole units:
\* a number from -22 to 27
MockDelta(s, k) == ((s * 7 + k * 13) % 50) - 22

\* base after the draws 1..k
RECURSIVE MockValue(_, _)
MockValue(s, k) ==
    IF k = 0 THEN MockBase ELSE MockValue(s, k - 1) + MockDelta(s, k)

\* d.toLocaleDateString('en-US', { month: 'short', day: 'numeric' })
DateLabel(t) == t \div SecondsPerDay

\* Generates placeholder data: 100 hourly points ending one hour before now
mockHistoricalData(range, now, s) ==
    [labels |-> [k \in 1..MockPoints |->
                    DateLabel(now - (MockPoints - (k - 1)) * SecondsPerHour)],
     data |-> [k \in 1..MockPoints |-> MockValue(s, k)],
     fullTimestamps |-> [k \in 1..MockPoints |->
                    FullTime(now - (MockPoints - (k - 1)) * SecondsPerHour)],
     synthetic |-> TRUE]

\* A faulty variant: a short history is replaced by placeholder data for
\* every range
getFilteredChartDataAnyRange(st, now, s) ==
    LET cfg == rangeConfig(st.chartTimeRange)
        history == st.pnlHistory
    IN  IF Len(history) < MinRealPoints
        THEN mockHistoricalData(st.chartTimeRange, now, s)
        ELSE LET startIdx == IF Len(history) - cfg.points > 0
                             THEN Len(history) - cfg.points ELSE 0
             IN  [labels |-> Downsample(Slice(st.pnlTimestamps, startIdx),
                                        cfg.step),
                  data |-> Downsample(Slice(history, startIdx), cfg.step),
                  fullTimestamps |->
                        Downsample(Slice(st.pnlFullTimestamps, startIdx),
                                   cfg.step),
                  synthetic |-> FALSE]

\* getFilteredChartData() at time now, Math.random() returning stream s
getFilteredChartData(st, now, s) ==
    LET cfg == rangeConfig(st.chartTimeRange)
        history == st.pnlHistory
    IN  IF Len(history) < MinRealPoints /\ st.chartTimeRange # "1D"
        THEN mockHistoricalData(st.chartTimeRange, now, s)
        ELSE LET startIdx == IF Len(history) - cfg.points > 0
                             THEN Len(history) - cfg.points ELSE 0
             IN  [labels |-> Downsample(Slice(st.pnlTimestamps, startIdx),
                                        cfg.step),
                  data |-> Downsample(Slice(history, startIdx), cfg.step),
                  fullTimestamps |->
                        Downsample(Slice(st.pnlFullTimestamps, startIdx),
                                   cfg.step),
                  synthetic |-> FALSE]

\* The buffer lengths the chart is checked with
ChartLengths ==
    {0, 1, MinRealPoints - 1, MinRealPoints, 60, 499, 500, 501,
     MAX_HISTORY - 1, MAX_HISTORY}

\* The session after n quiet polls
ChartState(n) ==
    IF n = 0 THEN [FreshState EXCEPT !.isAuth = TRUE] ELSE PolledState(n)

\* A session that has polled n times, with some range selected, the chart
\* created and not yet refreshed
ChartInit ==
    /\ \E n \in ChartLengths, r \in Ranges :
            state = [ChartState(n) EXCEPT !.chartTimeRange = r]
    /\ dom = PolledDom
    /\ ticks = [i \in TickSlots |-> IdleTick]
    /\ nextId = Len(state.pnlHistory)
    /\ timers = 1
    /\ listeners = 1
    /\ clock = 0
    /\ isSwitchingMode = FALSE
    /\ sw = IdleSwitch
    /\ posts = 0
    /\ lastDialog = NoDialog
    /\ srv = [mode |-> "MOCK", data |-> None]
    /\ faults = 0
    /\ reloading = FALSE
    /\ chart = NoChart
    /\ boxes = <<>>
    /\ health = FALSE
    /\ mreqs = {}

\* refreshChartData(): the chart takes the series of getFilteredChartData()
refreshChartData(st) ==
    \E s \in 1..MaxStreams : chart' = getFilteredChartData(st, clock, s)

\* setChartTimeRange(range), the chart existing
setChartTimeRange(range) ==
    /\ state' = [state EXCEPT !.chartTimeRange = range]
    /\ refreshChartData(state')
    /\ UNCHANGED <<dom, tickVars, timers, listeners, clock, switchVars, srv,
                   faults, reloading, marketVars>>

\* refreshChart(), the chart existing
refreshChart ==
    /\ refreshChartData(state)
    /\ UNCHANGED <<state, dom, tickVars, timers, listeners, clock, switchVars,
                   srv, faults, reloading, marketVars>>

\* An hour goes by
HourPasses ==
    /\ clock < MaxHours * SecondsPerHour
    /\ clock' = clock + SecondsPerHour
    /\ UNCHANGED <<state, dom, tickVars, timers, listeners, switchVars, srv,
                   faults, reloading, chart, marketVars>>

ChartNext ==
    \/ \E r \in Ranges : setChartTimeRange(r)
    \/ refreshChart
    \/ HourPasses

ChartSpec == ChartInit /\ [][ChartNext]_vars

\* ------------------------------------------------------ claims on the chart
\* The last m elements of a sequence
LastPoints(seq, m) == SubSeq(seq, Len(seq) - m + 1, Len(seq))

\* The smaller of two numbers
Least(a, b) == IF a < b THEN a ELSE b

\* C16: with range 1D the series drawn is, for a buffer of n points, its last
\* min(n, 500) points in order: labels, values and tooltip timestamps.
C16_OneDayWindow ==
    (state.chartTimeRange = "1D" /\ chart # NoChart)
        => LET m == Least(Len(state.pnlHistory), 500)
           IN  /\ Len(chart.data) = m
               /\ chart.data = LastPoints(state.pnlHistory, m)
               /\ chart.labels = LastPoints(state.pnlTimestamps, m)
               /\ chart.fullTimestamps = LastPoints(state.pnlFullTimestamps, m)

C16_Witness ==
    /\ state.chartTimeRange = "1D"
    /\ Len(state.pnlHistory) = MAX_HISTORY
    /\ Len(chart.data) = 500
    /\ chart.data[1] = state.pnlHistory[MAX_HISTORY - 499]
    /\ chart.data[500] = state.pnlHistory[MAX_HISTORY]

\* The (pointLimit, strideStep) of each range, as the claim tabulates them
RangeTable ==
    [r \in Ranges |->
        CASE r = "1D" -> <<500, 1>>
          [] r = "5D" -> <<1500, 2>>
          [] r = "1M" -> <<3000, 5>>
          [] r = "3M" -> <<5000, 10>>
          [] r = "6M" -> <<8000, 20>>
          [] r = "1Y" -> <<12000, 50>>]

\* seq2 holds the elements of seq at offsets 0, step, 2*step, ...
EveryNth(seq, step, seq2) ==
    /\ Len(seq2) = (Len(seq) + step - 1) \div step
    /\ \A j \in 1..Len(seq2) : seq2[j] = seq[(j - 1) * step + 1]

\* C17: on the real-data path the series drawn holds the points at offsets
\* 0, strideStep, 2*strideStep, ... of the last min(n, pointLimit) buffer
\* points, so its length is ceil(min(n, pointLimit) / strideStep).
C17_Stride ==
    (chart # NoChart /\ ~chart.synthetic)
        => LET limit == RangeTable[state.chartTimeRange][1]
               step == RangeTable[state.chartTimeRange][2]
               m == Least(Len(state.pnlHistory), limit)
           IN  /\ EveryNth(LastPoints(state.pnlHistory, m), step, chart.data)
               /\ EveryNth(LastPoints(state.pnlTimestamps, m), step,
                           chart.labels)
               /\ EveryNth(LastPoints(state.pnlFullTimestamps, m), step,
                           chart.fullTimestamps)

\* 60 points with 5D give 30 points
C17_Witness ==
    /\ state.chartTimeRange = "5D"
    /\ Len(state.pnlHistory) = 60
    /\ ~chart.synthetic
    /\ Len(chart.data) = 30
    /\ chart.data[30] = state.pnlHistory[59]

\* C18: the series drawn is the placeholder series exactly when the buffer
\* holds fewer than 50 points and the range is not 1D; the placeholder series
\* has exactly 100 points; any other series holds only points of the buffer.
C18_SyntheticFallback ==
    chart # NoChart
        => /\ chart.synthetic <=> (/\ Len(state.pnlHistory) < 50
                                   /\ state.chartTimeRange # "1D")
           /\ chart.synthetic
                => /\ Len(chart.data) = 100
                   /\ Len(chart.labels) = 100
                   /\ Len(chart.fullTimestamps) = 100
           /\ ~chart.synthetic
                => LET real == {<<state.pnlTimestamps[k], state.pnlHistory[k],
                                  state.pnlFullTimestamps[k]>> :
                                    k \in 1..Len(state.pnlHistory)}
                   IN  \A j \in 1..Len(chart.data) :
                         <<chart.labels[j], chart.data[j],
                           chart.fullTimestamps[j]>> \in real

\* Fresh session, range 3M: 100 placeholder points
C18_Witness ==
    /\ Len(state.pnlHistory) = 0
    /\ state.chartTimeRange = "3M"
    /\ chart.synthetic
    /\ Len(chart.data) = 100

\* C19: a refresh of a chart that shows the series of the current buffer and
\* range, at the same time, leaves the series as it is.
C19_Deterministic ==
    [][(state' = state /\ clock' = clock /\ chart # NoChart)
        => chart' = chart]_vars

\* --------------------------------------------------------- the market feed
\* Instrument payloads in one /market/data response
MaxItems == 1

\* item.ltp missing or null; no number in the price element
NoLtp == -1
NoPrice == -1

Markets == {"NIFTY", "COMMODITY"}

\* The instruments the backend reports for a market (None: no name given)
InstrumentsOf(market) ==
    IF market = "COMMODITY" THEN {"GOLD", "SILVER"} ELSE {market, None}

\* Prices (0: not yet known), closes (0: not given) and per-item statuses
Ltps == {NoLtp, 0, 100, 105}
Closes == {-100, 0, 100}
ItemStatuses == {None, "LOADING", "STALE", "VIRTUAL", "success"}

Items(market) ==
    [instrument : InstrumentsOf(market), ltp : Ltps, close : Closes,
     status : ItemStatuses]

\* The JSON bodies of GET /api/v1/market/data/<market>: a top-level status
\* and, under 'success', the instrument payloads (a body that is itself one
\* payload has the status 'success' as that payload's status)
Responses(market) ==
    {[status |-> st, data |-> <<>>] :
        st \in {"MARKET_CLOSED", "DATA_UNAVAILABLE", "success"}}
    \cup {[status |-> "success", data |-> d] :
            d \in UNION {[1..n -> Items(market)] : n \in 1..MaxItems}}

\* The text of the change element: sign, then the percentage in hundredths
\* of a percent, or dashes
Dashes(sign) == [sign |-> sign, known |-> FALSE, pct |-> 0]

\* A price box as the forEach creates it (lastOf: the instrument whose price
\* data-last-ltp holds, kept for stating properties only)
NewBox ==
    [kind |-> "box", label |-> None, badge |-> None, loading |-> FALSE,
     price |-> NoPrice, change |-> Dashes(""), last |-> 0, lastOf |-> None,
     flash |-> None, stale |-> FALSE, pulse |-> None]

\* The MARKET CLOSED placeholder: a .price-box with a label and a value
\* element only (no .change, no .data-pulse)
ClosedBox(market) == [NewBox EXCEPT !.kind = "closed", !.label = market]

\* A faulty variant: a price of 0 is taken as a price
NormalLtpKeepsZero(item) == item.ltp

\* const ltp = (item.ltp === 0) ? null : item.ltp
NormalLtp(item) == IF item.ltp = 0 THEN NoLtp ELSE item.ltp

\* A faulty variant: a missing close does not fall back to the price
CloseOfNoFallback(item) == IF item.close # 0 THEN item.close ELSE 1

\* const close = item.close || ltp || 1.0
CloseOf(item) ==
    IF item.close # 0 THEN item.close
    ELSE IF NormalLtp(item) # NoLtp /\ NormalLtp(item) # 0 THEN NormalLtp(item)
    ELSE 1

\* (change / close * 100).toFixed(2) for close > 0, in hundredths of a percent:
\* the quotient rounded to the nearest hundredth, halves away from zero
Hundredths(change, close) ==
    IF change >= 0 THEN (2 * change * 10000 + close) \div (2 * close)
    ELSE 0 - ((2 * (0 - change) * 10000 + close) \div (2 * close))

\* The flash class the box gets for the price ltp, None when it gets none
FlashClass(box, ltp) ==
    IF box.last > 0 /\ ltp # box.last
    THEN IF ltp > box.last THEN "up" ELSE "down"
    ELSE None

\* The body of the forEach for one payload and its box; thrown: the box has no
\* .change element and chgEl.textContent = ... raised a TypeError
RenderItem(box, item, market) ==
    LET symbol == IF item.instrument # None THEN item.instrument ELSE market
        ltp == NormalLtp(item)
        close == CloseOf(item)
        change == IF ltp # NoLtp THEN ltp - close ELSE 0
        sign == IF change >= 0 THEN "+" ELSE ""
        pct == IF close > 0 /\ ltp # NoLtp
               THEN [sign |-> sign, known |-> TRUE,
                     pct |-> Hundredths(change, close)]
               ELSE Dashes(sign)
        itemStatus == IF item.status # None THEN item.status ELSE "LIVE"
    IN  IF ltp = NoLtp \/ itemStatus = "LOADING"
        THEN LET b1 == [box EXCEPT !.loading = TRUE, !.price = NoPrice]
             IN  IF box.kind = "closed"
                 THEN [box |-> b1, thrown |-> TRUE]
                 ELSE [box |-> [b1 EXCEPT !.change = Dashes(""),
                                          !.label = symbol, !.badge = None],
                       thrown |-> FALSE]
        ELSE LET b1 ==
                    [box EXCEPT
                        !.flash = IF FlashClass(box, ltp) # None
                                  THEN FlashClass(box, ltp) ELSE @,
                        !.last = ltp,
                        !.lastOf = symbol,
                        !.stale = itemStatus \in {"STALE", "MARKET_CLOSED"},
                        !.pulse = IF box.kind = "closed" THEN @
                                  ELSE IF itemStatus \in {"STALE", "MARKET_CLOSED"}
                                       THEN "warning"
                                  ELSE IF itemStatus = "VIRTUAL" THEN "accent"
                                  ELSE "success",
                        !.label = symbol,
                        !.badge = IF itemStatus \in {"STALE", "MARKET_CLOSED",
                                                     "VIRTUAL"}
                                  THEN itemStatus ELSE None,
                        !.loading = FALSE,
                        !.price = ltp]
             IN  IF box.kind = "closed"
                 THEN [box |-> b1, thrown |-> TRUE]
                 ELSE [box |-> [b1 EXCEPT !.change = pct], thrown |-> FALSE]

\* dataItems.forEach((item, index) => ...) from the k-th payload on
RECURSIVE RenderFrom(_, _, _, _)
RenderFrom(bs, items, k, market) ==
    IF k > Len(items) THEN bs
    ELSE LET r == RenderItem(IF k <= Len(bs) THEN bs[k] ELSE NewBox,
                             items[k], market)
             bs2 == IF k <= Len(bs) THEN [bs EXCEPT ![k] = r.box]
                    ELSE Append(bs, r.box)
         IN  IF r.thrown THEN bs2 ELSE RenderFrom(bs2, items, k + 1, market)

\* The payloads rendered: for COMMODITY those of the selected commodity
DataItems(st, data) ==
    LET Wanted(item) == item.instrument = st.selectedCommodity
    IN  IF st.selectedMarket = "COMMODITY" THEN SelectSeq(data, Wanted)
        ELSE data

\* A session with metrics loaded, the price container still empty
MarketInit ==
    /\ state = PolledState(1)
    /\ dom = PolledDom
    /\ ticks = [i \in TickSlots |-> IdleTick]
    /\ nextId = 1
    /\ timers = 1
    /\ listeners = 1
    /\ clock = 0
    /\ isSwitchingMode = FALSE
    /\ sw = IdleSwitch
    /\ posts = 0
    /\ lastDialog = NoDialog
    /\ srv = [mode |-> "MOCK", data |-> None]
    /\ faults = 0
    /\ reloading = FALSE
    /\ chart = NoChart
    /\ boxes = <<>>
    /\ health = FALSE
    /\ mreqs = {}

\* updateMarketHeader() up to its fetch
updateMarketHeader(st) ==
    IF st.metrics # NoMetrics THEN mreqs' = mreqs \cup {st.selectedMarket}
    ELSE UNCHANGED mreqs

\* The health notice as updateDashboardUI() leaves it: hidden, the metrics not
\* reporting a degraded system
HealthNotice(st) == IF st.metrics # NoMetrics THEN FALSE ELSE health

\* tab.onclick of a market tab, as far as the price container is concerned:
\* the market is selected and updateDashboardUI() requests its prices
SelectMarket(market) ==
    /\ state' = [state EXCEPT !.selectedMarket = market]
    /\ health' = HealthNotice(state')
    /\ updateMarketHeader(state')
    /\ UNCHANGED <<dom, tickVars, timers, listeners, clock, switchVars, srv,
                   faults, reloading, chart, boxes>>

\* Any other updateDashboardUI(): the prices of the selected market are
\* requested
MarketRefresh ==
    /\ health' = HealthNotice(state)
    /\ updateMarketHeader(state)
    /\ UNCHANGED <<state, dom, tickVars, timers, listeners, clock, switchVars,
                   srv, faults, reloading, chart, boxes>>

\* The request fails, or its body cannot be decoded: caught and logged
MarketFeedError(market) ==
    /\ market \in mreqs
    /\ mreqs' = mreqs \ {market}
    /\ UNCHANGED <<state, dom, tickVars, timers, listeners, clock, switchVars,
                   srv, faults, reloading, chart, boxes, health>>

\* A faulty variant: a DATA_UNAVAILABLE body blanks the price container
MarketResponseBlanks(market, response) ==
    /\ market \in mreqs
    /\ response \in Responses(market)
    /\ mreqs' = mreqs \ {market}
    /\ CASE response.status = "MARKET_CLOSED" ->
                /\ boxes' = <<ClosedBox(state.selectedMarket)>>
                /\ UNCHANGED health
         [] response.status = "DATA_UNAVAILABLE" ->
                /\ health' = TRUE
                /\ boxes' = <<>>
         [] OTHER ->
                LET items == DataItems(state, response.data)
                    kept == IF Len(boxes) # Len(items) THEN <<>> ELSE boxes
                IN  /\ boxes' = RenderFrom(kept, items, 1, state.selectedMarket)
                    /\ UNCHANGED health
    /\ UNCHANGED <<state, dom, tickVars, timers, listeners, clock, switchVars,
                   srv, faults, reloading, chart>>

\* The body of a market request arrives and is rendered
MarketResponse(market, response) ==
    /\ market \in mreqs
    /\ response \in Responses(market)
    /\ mreqs' = mreqs \ {market}
    /\ CASE response.status = "MARKET_CLOSED" ->
                /\ boxes' = <<ClosedBox(state.selectedMarket)>>
                /\ UNCHANGED health
         [] response.status = "DATA_UNAVAILABLE" ->
                /\ health' = TRUE
                /\ UNCHANGED boxes
         [] OTHER ->
                LET items == DataItems(state, response.data)
                    kept == IF Len(boxes) # Len(items) THEN <<>> ELSE boxes
                IN  /\ boxes' = RenderFrom(kept, items, 1, state.selectedMarket)
                    /\ UNCHANGED health
    /\ UNCHANGED <<state, dom, tickVars, timers, listeners, clock, switchVars,
                   srv, faults, reloading, chart>>

MarketNext ==
    \/ \E m \in Markets : SelectMarket(m)
    \/ MarketRefresh
    \/ \E m \in Markets : MarketFeedError(m)
    \/ \E m \in Markets : \E r \in Responses(m) : MarketResponse(m, r)

MarketSpec == MarketInit /\ [][MarketNext]_vars

\* C20: rendering a payload whose ltp is 0 or missing into any box the page
\* can hold (or into a box created for it) leaves the box in the loading
\* state, with no number in the price element, no computed percentage in the
\* change element and the data-last-ltp it had; and a box that is in the
\* loading state after a step carries the data-last-ltp the box at its place
\* had before the step (none when the container was rebuilt).
C20_ZeroLtpLoading ==
    /\ [](\A b \in {boxes[k] : k \in 1..Len(boxes)} \cup {NewBox} :
            \A m \in Markets : \A item \in Items(m) :
                item.ltp \in {0, NoLtp} =>
                    LET r == RenderItem(b, item, state.selectedMarket).box
                    IN  /\ r.loading
                        /\ r.price = NoPrice
                        /\ ~r.change.known
                        /\ r.last = b.last)
    /\ [][\A k \in 1..Len(boxes') :
            boxes'[k].loading =>
                boxes'[k].last = IF Len(boxes) = Len(boxes') THEN boxes[k].last
                                 ELSE 0]_vars

\* A box that showed the price 100 is in the loading state and still carries
\* 100 as its last rendered price.
C20_Witness ==
    /\ Len(boxes) = 1
    /\ boxes[1].kind = "box"
    /\ boxes[1].loading
    /\ boxes[1].price = NoPrice
    /\ ~boxes[1].change.known
    /\ boxes[1].last = 100

\* C21: a response with the top-level status MARKET_CLOSED leaves the price
\* container holding the closed placeholder alone, labelled with the selected
\* market, with no price number, no change, no status badge and no
\* data-last-ltp, and touches nothing else; a response with the top-level
\* status DATA_UNAVAILABLE raises the health warning and leaves every box, its
\* price and its data-last-ltp as they were.
C21_ShortCircuit ==
    [][\A m \in Markets :
        /\ MarketResponse(m, [status |-> "MARKET_CLOSED", data |-> <<>>]) =>
              /\ Len(boxes') = 1
              /\ boxes'[1].kind = "closed"
              /\ boxes'[1].label = state.selectedMarket
              /\ boxes'[1].price = NoPrice
              /\ ~boxes'[1].change.known
              /\ ~boxes'[1].loading
              /\ boxes'[1].badge = None
              /\ boxes'[1].last = 0
              /\ health' = health
        /\ MarketResponse(m, [status |-> "DATA_UNAVAILABLE", data |-> <<>>]) =>
              /\ health'
              /\ boxes' = boxes]_vars

\* The health warning is up, no market request is pending, over a box that
\* still shows the price 105 and carries it as its last rendered price.
C21_Witness ==
    /\ health
    /\ mreqs = {}
    /\ Len(boxes) = 1
    /\ boxes[1].kind = "box"
    /\ boxes[1].price = 105
    /\ boxes[1].last = 105

\* The treatment the precedence gives a payload (lines 604-643)
Treatment(item) ==
    IF item.status = "LOADING" \/ item.ltp \in {0, NoLtp} THEN "LOADING"
    ELSE IF item.status \in {"STALE", "MARKET_CLOSED"} THEN "warning"
    ELSE IF item.status = "VIRTUAL" THEN "VIRTUAL"
    ELSE "LIVE"

\* What a box shows of its instrument's status: the loading text, the
\* stale-text class of the price, the colour of the pulse dot and the badge
StatusShown(box) ==
    [loading |-> box.loading, stale |-> box.stale, pulse |-> box.pulse,
     badge |-> box.badge]

\* What a box shows under each treatment
TreatmentShown(treatment) ==
    CASE treatment = "LOADING" ->
            [loading |-> TRUE, stale |-> FALSE, pulse |-> None, badge |-> None]
      [] treatment = "warning" ->
            [loading |-> FALSE, stale |-> TRUE, pulse |-> "warning",
             badge |-> "STALE"]
      [] treatment = "VIRTUAL" ->
            [loading |-> FALSE, stale |-> FALSE, pulse |-> "accent",
             badge |-> "VIRTUAL"]
      [] OTHER ->
            [loading |-> FALSE, stale |-> FALSE, pulse |-> "success",
             badge |-> None]

\* C22: whatever an instrument's box showed before, rendering a payload into it
\* makes it show the treatment the precedence gives that payload (loading,
\* warning, VIRTUAL or LIVE), which is what a fresh box would show for it.
C22_StatusFromPayload ==
    \A k \in 1..Len(boxes) : \A m \in Markets : \A item \in Items(m) :
        boxes[k].kind = "box" =>
            /\ StatusShown(RenderItem(boxes[k], item, state.selectedMarket).box)
                 = StatusShown(RenderItem(NewBox, item, state.selectedMarket).box)
            /\ StatusShown(RenderItem(NewBox, item, state.selectedMarket).box)
                 = TreatmentShown(Treatment(item))

\* C23: whatever box of the page a priced payload is rendered into, if the
\* box carries the last rendered price of another instrument then no flash is
\* raised against that price and that price is not overwritten; and the price
\* and the change shown are those a fresh box would show for the payload.
C23_PulsePerInstrument ==
    \A k \in 1..Len(boxes) : \A m \in Markets : \A item \in Items(m) :
        (boxes[k].kind = "box" /\ Treatment(item) # "LOADING") =>
            LET symbol == IF item.instrument # None THEN item.instrument
                          ELSE state.selectedMarket
                r == RenderItem(boxes[k], item, state.selectedMarket).box
                fresh == RenderItem(NewBox, item, state.selectedMarket).box
            IN  /\ (boxes[k].last > 0 /\ boxes[k].lastOf # symbol) =>
                      /\ FlashClass(boxes[k], NormalLtp(item)) = None
                      /\ r.last = boxes[k].last
                /\ r.price = fresh.price
                /\ r.change = fresh.change

\* C24: whatever instrument box a payload is rendered into, a percentage is
\* shown only if the payload has a price, is not LOADING and its close is not
\* negative; with a price p and a close c > 0 the change shown is
\* (p - c) / c * 100 to two decimals, signed + when p >= c; with a price and no
\* close the change shown is +0.00%; with no price no percentage is shown.
C24_PercentChange ==
    \A b \in {boxes[k] : k \in 1..Len(boxes)} \cup {NewBox} :
      \A m \in Markets : \A item \in Items(m) :
        b.kind = "box" =>
          LET r == RenderItem(b, item, state.selectedMarket).box
              p == item.ltp
              c == item.close
          IN  /\ r.change.known =>
                    (p \notin {0, NoLtp} /\ item.status # "LOADING" /\ c >= 0)
              /\ (Treatment(item) # "LOADING" /\ c > 0) =>
                    r.change = [sign |-> IF p >= c THEN "+" ELSE "",
                                known |-> TRUE,
                                pct |-> Hundredths(p - c, c)]
              /\ (Treatment(item) # "LOADING" /\ c = 0) =>
                    r.change = [sign |-> "+", known |-> TRUE, pct |-> 0]
              /\ p \in {0, NoLtp} => ~r.change.known

\* A box shows the price 105 against the close 100: +5.00%.
C24_Witness ==
    /\ Len(boxes) = 1
    /\ boxes[1].price = 105
    /\ boxes[1].change = [sign |-> "+", known |-> TRUE, pct |-> 500]

\* C25: the step that ends an accepted switch either applies a success reply
\* and shows no alert, or shows the blocked alert, or shows one failure alert,
\* and in the last two cases leaves the mode shown and the store alone; the
\* timeout alert ends only an attempt whose response headers never came; no
\* outcome alert appears while the attempt is in flight, nor once it has
\* ended, until another call is made.
C25_OneOutcome ==
    [][/\ (sw.pc # "idle" /\ sw'.pc = "idle") =>
            /\ \/ /\ sw.pc = "body"
                  /\ sw.reply.status = "success"
                  /\ lastDialog' = lastDialog
                  /\ lastDialog.kind \in {None, "busy"}
                  /\ dom'.headerMode = sw.reply.mode
               \/ /\ lastDialog'.kind \in FailureKinds \cup {"blocked"}
                  /\ dom'.headerMode = dom.headerMode
                  /\ dom'.headerData = dom.headerData
                  /\ state' = state
            /\ lastDialog'.kind = "timeout" =>
                  (sw.pc = "fetch" /\ sw.reply = NoReply)
       /\ (sw.pc # "idle" /\ sw'.pc # "idle") =>
            (lastDialog' = lastDialog \/ lastDialog'.kind = "busy")
       /\ (sw.pc = "idle" /\ sw'.pc = "idle") =>
            (lastDialog' = lastDialog \/ lastDialog'.kind = "declined")]_vars

\* A switch to PAPER has ended in success: no alert, the header shows PAPER,
\* no request is pending and the flag is down.
C25_Witness ==
    /\ sw.pc = "idle"
    /\ ~isSwitchingMode
    /\ posts = 0
    /\ lastDialog = NoDialog
    /\ dom.headerMode = "PAPER"
    /\ srv.mode = "PAPER"

\* C26: in a session, with no metrics response arriving, no step other than
\* the one that applies a switch reply changes the execution mode shown in
\* the header or state.metrics.execution_mode: what a successful switch set
\* stays.
C26_ModeSticks ==
    [][(/\ state.isAuth
        /\ state'.isAuth
        /\ ~(sw.pc = "body" /\ sw'.pc = "idle"))
        => /\ dom'.headerMode = dom.headerMode
           /\ (state.metrics # NoMetrics /\ state'.metrics # NoMetrics) =>
                state'.metrics.execution_mode = state.metrics.execution_mode]_vars

\* C27: in every reachable state at most one setInterval(fetchSystemData)
\* timer and at most one ACCOUNT_UPDATE listener are registered.
C27_OneTimer == timers <= 1 /\ listeners <= 1

\* C28: metrics requests being numbered in the order they are issued (one at
\* the start of each fetchSystemData run), no step replaces the metrics held
\* by the response to an earlier request, and a point added to the buffer is
\* not older than the point before it.
C28_NoRegression ==
    [][(state.metrics # NoMetrics /\ state'.metrics # NoMetrics) =>
          /\ state'.metrics.daily_pnl >= state.metrics.daily_pnl
          /\ (/\ state.pnlHistory # <<>>
              /\ state'.pnlHistory # state.pnlHistory
              /\ Pushed(state.pnlHistory, state'.pnlHistory)) =>
                state'.pnlHistory[Len(state'.pnlHistory)]
                    >= state.pnlHistory[Len(state.pnlHistory)]]_vars

BalanceStored(i) ==
    /\ ticks[i].pc = "body"
    /\ ticks[i].ep = EpA
    /\ ticks'[i].pc = "req"

\* C30: an invocation that ends holding an ok balance response has stored it;
\* the step that stores it leaves that balance in state.account_update and,
\* a listener being registered and metrics loaded, in metrics.total_capital,
\* and goes on to issue the agent-status request; no other step of an
\* invocation changes state.account_update.
C30_BalanceBroadcast ==
    [][\A i \in TickSlots :
        (Running(ticks[i]) /\ ticks'[i] # ticks[i] /\ ticks'[i].pc # "idle") =>
            /\ (/\ ticks'[i].pc \in {"done", "failed"}
                /\ Answered(ticks[i], EpA)
                /\ ticks[i].ok[EpA])
                    => Applied(ticks[i], EpA)
            /\ BalanceStored(i) =>
                    /\ state'.account_update = AccountBody(ticks[i].id)
                    /\ (listeners > 0 /\ state.metrics # NoMetrics) =>
                            state'.metrics.total_capital = ticks[i].id
                    /\ ticks'[i].ep = EpS
            /\ (~BalanceStored(i) /\ \A j \in TickSlots : ~BalanceStored(j)) =>
                    state'.account_update = state.account_update]_vars

=============================================================================
